---- MODULE Spec2Model ----
(***************************************************************************)
(* Model of AudioAssembler (src/assembler/audio_assembler.py): one call of *)
(* assemble, step by step, over a small file system.                       *)
(*                                                                         *)
(* Text (file names, directory names) is a sequence of code points, so the *)
(* order of two names and the substring tests are Python's.  A path is the *)
(* sequence of its components; the last one is its base name.              *)
(*                                                                         *)
(* An array of samples is not stored sample by sample (one second is 24000 *)
(* samples): it is a record naming where the samples come from (src, lo),  *)
(* how many there are (shape), the operations applied to them (ops) and   *)
(* the frames per second of its first axis (rate).  Samples(a) gives the   *)
(* samples of such an array as runs of like samples.                       *)
(*                                                                         *)
(* Spec is one call of assemble.  SpecMem follows the arrays of a call in  *)
(* memory (which buffer is a copy, which a view), SpecRepeat is two calls  *)
(* in a row, SpecRegain two calls with the music-body gain changed in      *)
(* between, SpecPipeline the pipeline's audio stage feeding assemble, and  *)
(* SpecRun a whole run of cli.main and PodcastPipeline.run with its skip   *)
(* flags.                                                                  *)
(***************************************************************************)
EXTENDS Integers, Sequences, FiniteSets, TLC

-----------------------------------------------------------------------------
(* Bounds of the model *)

\* longest explicit list / mapping handed to assemble
MaxSegs == 3

\* most topics of a generated podcast, most exchanges of a topic
MaxTopics == 2
MaxExchanges == 12

-----------------------------------------------------------------------------
(* Text *)

s_output == <<111, 117, 116, 112, 117, 116>>  \* "output"
s_old_topic == <<111, 108, 100, 95, 116, 111, 112, 105, 99>>  \* "old_topic"
s_final == <<102, 105, 110, 97, 108>>  \* "final"
s_ep1 == <<101, 112, 49>>  \* "ep1"
s_sub == <<115, 117, 98>>  \* "sub"
s_music == <<109, 117, 115, 105, 99>>  \* "music"
s_a_topic_wav == <<97, 95, 116, 111, 112, 105, 99, 46, 119, 97, 118>>  \* "a_topic.wav"
s_b_speaker_wav == <<98, 95, 115, 112, 101, 97, 107, 101, 114, 46, 119, 97, 118>>  \* "b_speaker.wav"
s_c_wav == <<99, 46, 119, 97, 118>>  \* "c.wav"
s_b_speaker_topic_wav == <<98, 95, 115, 112, 101, 97, 107, 101, 114, 95, 116, 111, 112, 105, 99, 46, 119, 97, 118>>  \* "b_speaker_topic.wav"
s_e_wav == <<101, 46, 119, 97, 118>>  \* "e.wav"
s_d_wav == <<100, 46, 119, 97, 118>>  \* "d.wav"
s_notes_txt == <<110, 111, 116, 101, 115, 46, 116, 120, 116>>  \* "notes.txt"
s_podcast_wav == <<112, 111, 100, 99, 97, 115, 116, 46, 119, 97, 118>>  \* "podcast.wav"
s_background_mp3 == <<98, 97, 99, 107, 103, 114, 111, 117, 110, 100, 46, 109, 112, 51>>  \* "background.mp3"
s_dot_wav == <<46, 119, 97, 118>>  \* ".wav"
s_topic == <<95, 116, 111, 112, 105, 99>>  \* "_topic"
s_speaker == <<95, 115, 112, 101, 97, 107, 101, 114>>  \* "_speaker"

\* Python's str < str: the first differing code point decides, a proper
\* prefix is smaller.
RECURSIVE StrLt(_, _)
StrLt(a, b) ==
    IF b = <<>> THEN FALSE
    ELSE IF a = <<>> THEN TRUE
    ELSE IF a[1] # b[1] THEN a[1] < b[1]
    ELSE StrLt(Tail(a), Tail(b))

\* Python's `needle in text`
Contains(text, needle) ==
    \E k \in 0..(Len(text) - Len(needle)) :
        SubSeq(text, k + 1, k + Len(needle)) = needle

\* fnmatch of the pattern '*' + suffix
EndsWith(text, suffix) ==
    /\ Len(text) >= Len(suffix)
    /\ SubSeq(text, Len(text) - Len(suffix) + 1, Len(text)) = suffix

-----------------------------------------------------------------------------
(* Paths (pathlib) *)

\* Path.name
Name(p) == p[Len(p)]

\* Path.parent
Parent(p) == SubSeq(p, 1, Len(p) - 1)

\* Path / name
Join(dir, name) == Append(dir, name)

\* Path < Path: the component lists are compared, first difference decides
RECURSIVE PathLt(_, _)
PathLt(p, q) ==
    IF q = <<>> THEN FALSE
    ELSE IF p = <<>> THEN TRUE
    ELSE IF p[1] # q[1] THEN StrLt(p[1], q[1])
    ELSE PathLt(Tail(p), Tail(q))

\* the path and all its ancestors: what mkdir(parents=True) leaves existing
Ancestry(dir) == { SubSeq(dir, 1, k) : k \in 1..Len(dir) }

-----------------------------------------------------------------------------
(* Optional values: None is the empty sequence, a value v is <<v>> *)

None == <<>>
Some(v) == <<v>>
IsNone(x) == x = <<>>
Get(x) == x[1]

-----------------------------------------------------------------------------
(* Sorting *)

\* the key comparison of sorted(audio_files.values(), key=lambda x: x.name)
KeyLtFullPath(p, q) == PathLt(p, q)
KeyLt(p, q) == StrLt(Name(p), Name(q))

\* One insertion of a stable sort: x goes behind every element whose key is
\* not greater than its own.
RECURSIVE InsertByKey(_, _)
InsertByKey(sorted, x) ==
    IF sorted = <<>> THEN <<x>>
    ELSE IF KeyLt(x, sorted[1]) THEN <<x>> \o sorted
    ELSE <<sorted[1]>> \o InsertByKey(Tail(sorted), x)

\* sorted(seq, key=name): Python's sort is stable
RECURSIVE SortedByName(_)
SortedByName(seq) ==
    IF seq = <<>> THEN <<>>
    ELSE InsertByKey(SortedByName(SubSeq(seq, 1, Len(seq) - 1)), seq[Len(seq)])

\* sorted(set of paths): ascending Path order
RECURSIVE SortedPaths(_)
SortedPaths(S) ==
    IF S = {} THEN <<>>
    ELSE LET least == CHOOSE p \in S : \A q \in S \ {p} : PathLt(p, q)
         IN  <<least>> \o SortedPaths(S \ {least})

\* dict.values(): the values in insertion order
Values(mapping) == [k \in 1..Len(mapping) |-> mapping[k][2]]

-----------------------------------------------------------------------------
(* Program constants *)

\* self.sample_rate = 24000
SampleRate == 24000
\* samples_15s = 15 * self.sample_rate
ExcerptSeconds == 15
\* the default duration_seconds = 0.5 of _fade_in and _fade_out, in tenths
FadeTenths == 5
\* the arguments of _create_silence, in tenths of a second
TopicGapTenths == 15
SpeakerGapTenths == 7
PlainGapTenths == 10

\* int(self.sample_rate * duration_seconds) for a duration given in tenths
\* of a second.  24000 * 0.5, * 0.7, * 1.0 and * 1.5 are whole numbers in
\* double precision, so the truncation of int() changes nothing.
SamplesOfTenths(rate, tenths) == (rate * tenths) \div 10

CeilDiv(a, b) == (a + b - 1) \div b

RECURSIVE GCD(_, _)
GCD(a, b) == IF b = 0 THEN a ELSE GCD(b, a % b)

\* ceil(n * rate / sr); the ratio is reduced first, so that the product
\* stays within 32-bit integers
Rescaled(n, rate, sr) ==
    LET g == GCD(rate, sr) IN CeilDiv(n * (rate \div g), sr \div g)

-----------------------------------------------------------------------------
(* Arrays of samples (numpy.ndarray).  An array is described by where its   *)
(* samples come from (src, lo), its shape, the operations applied to it    *)
(* (ops) and the number of frames per second along its first axis (rate).  *)

\* number of samples along the first axis: len(array)
ALen(a) == a.shape[1]

\* array.ndim
NDim(a) == Len(a.shape)

WithOp(a, op) == [a EXCEPT !.ops = Append(@, op)]

\* np.zeros(n); silence has no rate of its own (rate 0)
Zeros(n) == [src |-> <<"zeros">>, lo |-> 0, shape |-> <<n>>, ops |-> <<>>, rate |-> 0]

\* array[from:to] of a one-dimensional array, 0 <= from <= to <= len
Slice(a, from, to) == [a EXCEPT !.lo = @ + from, !.shape = <<to - from>>]

\* sf.read(file): the decoded frames, one-dimensional for a mono file and
\* (frames, channels) otherwise
Decoded(file, content) ==
    [src |-> <<"file", file>>, lo |-> 0,
     shape |-> IF content.channels = 1 THEN <<content.frames>>
               ELSE <<content.frames, content.channels>>,
     ops |-> <<>>, rate |-> content.rate]

\* librosa.resample(audio, orig_sr=sr, target_sr=rate): the LAST axis is
\* resampled (librosa's default axis=-1) to ceil(n * rate / sr) samples;
\* the frames per second change when that axis is the first one
Resample(a, sr, rate) ==
    LET d == Len(a.shape)
    IN  [a EXCEPT !.shape[d] = Rescaled(@, rate, sr),
                  !.ops = Append(@, <<"resample", sr>>),
                  !.rate = IF d = 1 THEN rate ELSE @]

\* np.mean(audio, axis=1)
MeanAxis1(a) ==
    [a EXCEPT !.shape = <<a.shape[1]>>, !.ops = Append(@, <<"mean", a.shape[2]>>)]

\* librosa.load(path, sr=rate): folded to mono, then resampled to rate
Loaded(file, content, rate) ==
    LET mono == [src |-> <<"music", file>>, lo |-> 0, shape |-> <<content.frames>>,
                 ops |-> IF content.channels = 1 THEN <<>>
                         ELSE <<<<"to_mono", content.channels>>>>,
                 rate |-> content.rate]
    IN  IF content.rate = rate THEN mono ELSE Resample(mono, content.rate, rate)

\* np.concatenate(list of one-dimensional arrays): the samples of the
\* arrays one after the other; an array without samples contributes nothing
RECURSIVE Concatenate(_)
ConcatenateSounding(arrays) == SelectSeq(arrays, LAMBDA a : a.src # <<"zeros">>)
Concatenate(arrays) ==
    IF arrays = <<>> THEN <<>>
    ELSE (IF ALen(arrays[1]) = 0 THEN <<>> ELSE <<arrays[1]>>)
         \o Concatenate(Tail(arrays))

\* len(np.concatenate(...))
RECURSIVE TotalLen(_)
TotalLen(pieces) ==
    IF pieces = <<>> THEN 0 ELSE ALen(pieces[1]) + TotalLen(Tail(pieces))

-----------------------------------------------------------------------------
(* The samples of a one-dimensional array, as a sequence of runs.  A run is  *)
(* n consecutive samples: the samples at..at+n-1 of src, each having gone    *)
(* through ops.  An operation <<name, arg>> multiplies every sample alike;   *)
(* a ramp <<name, length, phase>> multiplies the j-th sample of the run by   *)
(* the value phase+j of a ramp of that length.                               *)

NewRun(n, src, at) == [n |-> n, src |-> src, at |-> at, ops |-> <<>>]

Advance(op, d) == IF Len(op) = 3 THEN <<op[1], op[2], op[3] + d>> ELSE op

\* the run without its first d samples; every sample of np.zeros is the same
DropFirst(run, d) ==
    [n |-> run.n - d, src |-> run.src,
     at |-> IF run.src = <<"zeros">> THEN run.at ELSE run.at + d,
     ops |-> [j \in 1..Len(run.ops) |-> Advance(run.ops[j], d)]]

\* samples[pos:]
RECURSIVE After(_, _)
After(runs, pos) ==
    IF pos = 0 \/ runs = <<>> THEN runs
    ELSE IF pos >= runs[1].n THEN After(Tail(runs), pos - runs[1].n)
    ELSE <<DropFirst(runs[1], pos)>> \o Tail(runs)

\* samples[:pos]
RECURSIVE Before(_, _)
Before(runs, pos) ==
    IF pos = 0 \/ runs = <<>> THEN <<>>
    ELSE IF pos >= runs[1].n THEN <<runs[1]>> \o Before(Tail(runs), pos - runs[1].n)
    ELSE <<[runs[1] EXCEPT !.n = pos]>>

\* samples[from:to]
Window(runs, from, to) == Before(After(runs, from), to - from)

\* len(samples)
RECURSIVE Count(_)
Count(runs) == IF runs = <<>> THEN 0 ELSE runs[1].n + Count(Tail(runs))

\* samples * factor
Scaled(runs, op) == [j \in 1..Len(runs) |-> [runs[j] EXCEPT !.ops = Append(@, op)]]

\* samples * ramp[phase:], sample by sample
RECURSIVE Ramped(_, _, _, _)
Ramped(runs, name, length, phase) ==
    IF runs = <<>> THEN <<>>
    ELSE <<[runs[1] EXCEPT !.ops = Append(@, <<name, length, phase>>)]>>
         \o Ramped(Tail(runs), name, length, phase + runs[1].n)

\* `samples[:length] *= np.linspace(0, 1, length)`
RampedIn(runs, length) ==
    Ramped(Before(runs, length), "fade_in", length, 0) \o After(runs, length)

\* `samples[-length:] *= np.linspace(1, 0, length)`
RampedOut(runs, length) ==
    LET from == Count(runs) - length
    IN  Before(runs, from) \o Ramped(After(runs, from), "fade_out", length, 0)

\* two runs that are one run cut in two
Continues(r1, r2) == DropFirst([r1 EXCEPT !.n = r1.n + r2.n], r1.n) = r2

\* the same samples in the fewest runs
RECURSIVE Joined(_)
Joined(runs) ==
    IF Len(runs) < 2 THEN runs
    ELSE IF Continues(runs[1], runs[2])
         THEN Joined(<<[runs[1] EXCEPT !.n = runs[1].n + runs[2].n]>> \o Tail(Tail(runs)))
         ELSE <<runs[1]>> \o Joined(Tail(runs))

RECURSIVE Through(_, _)
Through(runs, ops) ==
    IF ops = <<>> THEN runs
    ELSE Through(CASE ops[1][1] = "fade_in"  -> RampedIn(runs, ops[1][2])
                   [] ops[1][1] = "fade_out" -> RampedOut(runs, ops[1][2])
                   [] OTHER                  -> Scaled(runs, ops[1]),
                 Tail(ops))

\* the samples of a one-dimensional array
Samples(a) ==
    IF ALen(a) = 0 THEN <<>>
    ELSE Joined(Through(<<NewRun(ALen(a), a.src, a.lo)>>, a.ops))

-----------------------------------------------------------------------------
(* AudioAssembler's helpers.  A helper that can raise returns a record       *)
(* [ok, val, err].                                                         *)

Ok(v) == [ok |-> TRUE, val |-> v, err |-> [type |-> "", text |-> ""]]
Err(type, text) == [ok |-> FALSE, val |-> <<>>, err |-> [type |-> type, text |-> text]]

\* _create_silence
CreateSilenceWholeSeconds(rate, tenths) == Zeros(rate * (tenths \div 10))
CreateSilence(rate, tenths) == Zeros(SamplesOfTenths(rate, tenths))

\* _adjust_volume
AdjustVolume(audio, db_change) ==
    IF db_change = 0 THEN audio ELSE WithOp(audio, <<"gain", db_change>>)

\* `audio_copy[:fade_length] *= fade` and `audio_copy[-fade_length:] *= fade`:
\* the slice has min(len, fade_length) samples and the ramp fade_length, and
\* numpy refuses an in-place product of two different lengths
BroadcastText == "operands could not be broadcast together"

\* _fade_in
FadeInWholeClip(audio, rate) == Ok(WithOp(audio, <<"fade_in", ALen(audio)>>))
FadeIn(audio, rate) ==
    LET fade_length == SamplesOfTenths(rate, FadeTenths)
    IN  IF ALen(audio) < fade_length THEN Err("ValueError", BroadcastText)
        ELSE Ok(WithOp(audio, <<"fade_in", fade_length>>))

\* _fade_out
FadeOut(audio, rate) ==
    LET fade_length == SamplesOfTenths(rate, FadeTenths)
    IN  IF ALen(audio) < fade_length THEN Err("ValueError", BroadcastText)
        ELSE Ok(WithOp(audio, <<"fade_out", fade_length>>))

-----------------------------------------------------------------------------
(* The file system the calls run on *)

D_output == <<s_output>>
D_sub == <<s_output, s_sub>>
D_old_topic == <<s_old_topic>>
D_music == <<s_music>>
D_final_ep1 == <<s_final, s_ep1>>

P_a == <<s_output, s_a_topic_wav>>
P_b == <<s_output, s_b_speaker_wav>>
P_c == <<s_output, s_c_wav>>
P_x == <<s_old_topic, s_c_wav>>
P_bt == <<s_output, s_b_speaker_topic_wav>>
P_e == <<s_output, s_e_wav>>
P_notes == <<s_output, s_notes_txt>>
P_sub_d == <<s_output, s_sub, s_d_wav>>
P_music == <<s_music, s_background_mp3>>

\* the content of a file: an audio file has a rate, channels and frames;
\* data holds the samples of a file that assemble wrote
AudioFile(rate, channels, frames) ==
    [kind |-> "audio", rate |-> rate, channels |-> channels, frames |-> frames,
     data |-> <<>>]
OtherFile == [kind |-> "other", rate |-> 0, channels |-> 0, frames |-> 0, data |-> <<>>]

\* what the working directory holds when the assembler is constructed
Scenarios == {"plain", "short", "stereo", "gone", "bare"}

ClipC(scenario) ==
    CASE scenario = "short"  -> AudioFile(24000, 1, 6000)
      [] scenario = "stereo" -> AudioFile(48000, 2, 48000)
      [] OTHER               -> AudioFile(24000, 1, 24000)

Restrict(f, S) == [x \in S |-> f[x]]

ClipFiles(scenario) ==
    LET all == (P_a :> AudioFile(24000, 1, 24000)) @@ (P_b :> AudioFile(24000, 1, 24000))
               @@ (P_c :> ClipC(scenario)) @@ (P_x :> AudioFile(24000, 1, 12000))
               @@ (P_bt :> AudioFile(22050, 1, 16538)) @@ (P_e :> AudioFile(24000, 1, 36000))
               @@ (P_notes :> OtherFile) @@ (P_sub_d :> AudioFile(24000, 1, 24000))
    IN  CASE scenario = "gone" -> Restrict(all, DOMAIN all \ {P_c})
          [] scenario = "bare" -> Restrict(all, {P_x, P_notes, P_sub_d})
          [] OTHER             -> all

MusicKinds == {"long", "brief", "absent"}

MusicFiles(kind) ==
    CASE kind = "long"  -> (P_music :> AudioFile(44100, 2, 882000))
      [] kind = "brief" -> (P_music :> AudioFile(24000, 1, 120000))
      [] OTHER          -> <<>>

\* config.audio's four volumes
GainConfigs ==
    { [vocal_volume |-> Some(0), bg_intro_volume |-> Some(-12),
       bg_content_volume |-> Some(-20), bg_outro_volume |-> Some(-12)],
      [vocal_volume |-> None, bg_intro_volume |-> None,
       bg_content_volume |-> None, bg_outro_volume |-> None],
      [vocal_volume |-> Some(-6), bg_intro_volume |-> Some(0),
       bg_content_volume |-> None, bg_outro_volume |-> Some(-3)] }

\* the arguments a caller passes
ListPaths == {P_a, P_b, P_c}
MappingPaths == {P_a, P_c, P_x, P_bt}
Lists == UNION { [1..n -> ListPaths] : n \in 0..MaxSegs }
LabelOrders(n) == { [k \in 1..n |-> k], [k \in 1..n |-> n + 1 - k] }
Mappings ==
    UNION { { [k \in 1..n |-> <<lab[k], l[k]>>] : lab \in LabelOrders(n),
                                                 l \in [1..n -> MappingPaths] }
            : n \in 0..MaxSegs }
AudioFilesArgs ==
    {[form |-> "None", items |-> <<>>]}
    \cup { [form |-> "list", items |-> l] : l \in Lists }
    \cup { [form |-> "dict", items |-> m] : m \in Mappings }
OutputDirArgs == {None, Some(D_final_ep1), Some(P_notes)}

-----------------------------------------------------------------------------
(* State *)

VARIABLES
    self,             \* the assembler's fields, set by __init__
    files,            \* file system: path -> content
    dirs,             \* file system: the directories that exist
    pc,               \* where the call of assemble is
    call,             \* the caller's arguments audio_files, output_dir
    audio_files,      \* the local audio_files once it is a list
    output_path,      \* the local output_path
    last_15s,         \* the local last_15s (None before the music is loaded)
    podcast_segments, \* the local podcast_segments
    i,                \* the loop index
    result,           \* what the call gave back: a path or an exception
    log,              \* the records handed to the logger
    heap,             \* the arrays in memory, as runs of samples
    held,             \* the references to arrays in memory: name -> view
    earlier,          \* what was observed before: a buffer's samples, a call
    run               \* the run of the pipeline that calls assemble, if any

vars == <<self, files, dirs, pc, call, audio_files, output_path, last_15s,
          podcast_segments, i, result, log, heap, held, earlier, run>>

\* the variables that assemble's own steps leave alone
memory == <<heap, held, earlier, run>>

NoResult == [kind |-> "none", path |-> <<>>, type |-> "", text |-> <<>>]

\* no pipeline: assemble is called directly
NoRun == [at |-> "off"]
Returned(path) == [kind |-> "returned", path |-> path, type |-> "", text |-> <<>>]

\* raise AudioAssemblyError(f"Podcast assembly failed: {str(e)}")
WrappedBare(e) ==
    [kind |-> "raised", path |-> <<>>, type |-> e.type, text |-> <<e.text>>]
Wrapped(e) ==
    [kind |-> "raised", path |-> <<>>, type |-> "AudioAssemblyError",
     text |-> <<"Podcast assembly failed: ", e.text>>]

\* AudioAssembler.__init__
Init ==
    /\ \E g \in GainConfigs :
         self = [audio_dir |-> D_output, output_file |-> s_podcast_wav,
                 music_path |-> P_music, sample_rate |-> SampleRate,
                 vocal_volume |-> g.vocal_volume,
                 bg_intro_volume |-> g.bg_intro_volume,
                 bg_content_volume |-> g.bg_content_volume,
                 bg_outro_volume |-> g.bg_outro_volume]
    /\ \E scenario \in Scenarios, kind \in MusicKinds :
         files = ClipFiles(scenario) @@ MusicFiles(kind)
    /\ dirs = {D_output, D_sub, D_old_topic, D_music}
    /\ pc = "idle"
    /\ call = [audio_files |-> [form |-> "None", items |-> <<>>], output_dir |-> None]
    /\ audio_files = <<>>
    /\ output_path = <<>>
    /\ last_15s = None
    /\ podcast_segments = <<>>
    /\ i = 0
    /\ result = NoResult
    /\ log = <<>>
    /\ heap = <<>>
    /\ held = <<>>
    /\ earlier = None
    /\ run = NoRun

-----------------------------------------------------------------------------
(* AudioAssembler.assemble, one action per step of its body *)

\* except Exception as e: logger.error(...); raise AudioAssemblyError(...)
Raise(e, logged) ==
    /\ result' = Wrapped(e)
    /\ pc' = "raised"
    /\ log' = (log \o logged) \o <<<<"error", "Failed to assemble podcast">>>>

\* self.audio_dir.glob('*.wav'): the entries of the directory itself whose
\* name matches, whatever they are
GlobDeep(dir) ==
    { p \in (DOMAIN files) \cup dirs :
        /\ Len(p) > Len(dir)
        /\ SubSeq(p, 1, Len(dir)) = dir
        /\ EndsWith(Name(p), s_dot_wav) }
Glob(dir) ==
    { p \in (DOMAIN files) \cup dirs :
        /\ Len(p) = Len(dir) + 1
        /\ Parent(p) = dir
        /\ EndsWith(Name(p), s_dot_wav) }

\* the caller calls assemble(audio_files, output_dir)
Call(a, o) ==
    /\ pc = "idle"
    /\ call' = [audio_files |-> a, output_dir |-> o]
    /\ pc' = "resolve"
    /\ UNCHANGED memory
    /\ UNCHANGED <<self, files, dirs, audio_files, output_path, last_15s,
                   podcast_segments, i, result, log>>

\* the segment list of a call: the directory scan, the mapping's values
\* sorted by name, or the list as given
ResolvedSorted(a) ==
    CASE a.form = "None" -> SortedPaths(Glob(self.audio_dir))
      [] a.form = "dict" -> SortedByName(Values(a.items))
      [] OTHER           -> SortedByName(a.items)
Resolved(a) ==
    CASE a.form = "None" -> SortedPaths(Glob(self.audio_dir))
      [] a.form = "dict" -> SortedByName(Values(a.items))
      [] OTHER           -> a.items

\* `if not audio_files: raise ValueError(...)`, which the source has in the
\* directory-scan branch only
EmptyRefused(a) == a.form = "None" /\ Resolved(a) = <<>>

Resolve ==
    /\ pc = "resolve"
    /\ IF EmptyRefused(call.audio_files)
       THEN /\ Raise([type |-> "ValueError", text |-> "No WAV files found in audio_dir"], <<>>)
            /\ UNCHANGED audio_files
       ELSE /\ audio_files' = Resolved(call.audio_files)
            /\ pc' = "mkdir"
            /\ UNCHANGED <<result, log>>
    /\ UNCHANGED memory
    /\ UNCHANGED <<self, files, dirs, call, output_path, last_15s,
                   podcast_segments, i>>

\* Path(output_dir or self.audio_dir): a Path is always true
OutputDirOnlyDefault(o) == self.audio_dir
OutputDir(o) == IF IsNone(o) THEN self.audio_dir ELSE Get(o)

\* output_dir.mkdir(exist_ok=True, parents=True)
Mkdir(current, dir) == current \cup Ancestry(dir)

MakeOutputDirRebinding ==
    /\ pc = "mkdir"
    /\ LET output_dir == OutputDir(call.output_dir)
       IN  IF \E d \in Ancestry(output_dir) : d \in DOMAIN files
           THEN /\ Raise([type |-> "FileExistsError", text |-> "File exists"], <<>>)
                /\ UNCHANGED <<dirs, output_path, self>>
           ELSE /\ dirs' = Mkdir(dirs, output_dir)
                /\ output_path' = Join(output_dir, self.output_file)
                /\ self' = [self EXCEPT !.audio_dir = output_dir]
                /\ log' = Append(log, <<"info", "Assembling audio segments into final podcast">>)
                /\ pc' = "music"
                /\ UNCHANGED result
    /\ UNCHANGED memory
    /\ UNCHANGED <<files, call, audio_files, last_15s, podcast_segments, i>>
MakeOutputDir ==
    /\ pc = "mkdir"
    /\ LET output_dir == OutputDir(call.output_dir)
       IN  IF \E d \in Ancestry(output_dir) : d \in DOMAIN files
           THEN /\ Raise([type |-> "FileExistsError", text |-> "File exists"], <<>>)
                /\ UNCHANGED <<dirs, output_path>>
           ELSE /\ dirs' = Mkdir(dirs, output_dir)
                /\ output_path' = Join(output_dir, self.output_file)
                /\ log' = Append(log, <<"info", "Assembling audio segments into final podcast">>)
                /\ pc' = "music"
                /\ UNCHANGED result
    /\ UNCHANGED memory
    /\ UNCHANGED <<self, files, call, audio_files, last_15s, podcast_segments, i>>

\* samples_15s = 15 * self.sample_rate
Samples15s == ExcerptSeconds * self.sample_rate

\* first_15s = music_audio[:samples_15s] if long enough else music_audio
First15s(music_audio) ==
    IF ALen(music_audio) >= Samples15s
    THEN Slice(music_audio, 0, Samples15s) ELSE music_audio

\* last_15s = music_audio[-samples_15s:] if long enough else music_audio
Last15sFromStart(music_audio) ==
    IF ALen(music_audio) >= Samples15s
    THEN Slice(music_audio, 0, Samples15s) ELSE music_audio
Last15s(music_audio) ==
    IF ALen(music_audio) >= Samples15s
    THEN Slice(music_audio, ALen(music_audio) - Samples15s, ALen(music_audio))
    ELSE music_audio

\* `if volume is not None: excerpt = self._adjust_volume(excerpt, volume)`
WithVolume(audio, volume) ==
    IF IsNone(volume) THEN audio ELSE AdjustVolume(audio, Get(volume))

LoadMusic ==
    /\ pc = "music"
    /\ IF self.music_path \notin DOMAIN files
       THEN /\ Raise([type |-> "FileNotFoundError", text |-> "No such file or directory"],
                       <<<<"info", "Loading background music">>>>)
            /\ UNCHANGED <<last_15s, podcast_segments, i>>
       ELSE LET music_audio == Loaded(self.music_path, files[self.music_path],
                                      self.sample_rate)
            IN  /\ podcast_segments' =
                     <<WithVolume(First15s(music_audio), self.bg_intro_volume)>>
                /\ last_15s' =
                     Some(WithVolume(Last15s(music_audio), self.bg_outro_volume))
                /\ i' = 0
                /\ log' = log \o <<<<"info", "Loading background music">>,
                                   <<"info", "Processing audio segments">>>>
                /\ pc' = "loop"
                /\ UNCHANGED result
    /\ UNCHANGED memory
    /\ UNCHANGED <<self, files, dirs, call, audio_files, output_path>>

\* lines 72-78 of the loop body: read, resample, fold to mono
MonoAtRate(file) ==
    LET content == files[file]
        audio   == Decoded(file, content)
        atRate  == IF content.rate # self.sample_rate
                   THEN Resample(audio, content.rate, self.sample_rate) ELSE audio
    IN  IF NDim(atRate) > 1 THEN MeanAxis1(atRate) ELSE atRate

\* lines 72-82 of the loop body: read, resample, fold to mono, speech volume
PreparedWithContentGain(file) ==
    WithVolume(WithVolume(MonoAtRate(file), self.vocal_volume), self.bg_content_volume)
Prepared(file) == WithVolume(MonoAtRate(file), self.vocal_volume)

\* `if i == 0: fade in  elif i == len(audio_files) - 1: fade out`
FadedBoth(audio, k, n) ==
    LET first == IF k = 0 THEN FadeIn(audio, self.sample_rate) ELSE Ok(audio)
    IN  IF first.ok /\ k = n - 1 THEN FadeOut(first.val, self.sample_rate) ELSE first
Faded(audio, k, n) ==
    IF k = 0 THEN FadeIn(audio, self.sample_rate)
    ELSE IF k = n - 1 THEN FadeOut(audio, self.sample_rate)
    ELSE Ok(audio)

\* sf.read(file) raises unless the file exists and is an audio file
Readable(file) == file \in DOMAIN files /\ files[file].kind = "audio"

\* lines 72-88: the processed waveform of the k-th of n segments (k from 0)
Processed(file, k, n) ==
    IF ~Readable(file) THEN Err("LibsndfileError", "Error opening file")
    ELSE Faded(Prepared(file), k, n)

\* the duration chosen at lines 94-99, in tenths of a second
GapTenthsSpeakerFirst(name) ==
    IF Contains(name, s_speaker) THEN SpeakerGapTenths
    ELSE IF Contains(name, s_topic) THEN TopicGapTenths
    ELSE PlainGapTenths
GapTenths(name) ==
    IF Contains(name, s_topic) THEN TopicGapTenths
    ELSE IF Contains(name, s_speaker) THEN SpeakerGapTenths
    ELSE PlainGapTenths

\* lines 93-99: what follows the k-th of n segments in podcast_segments
SilenceAfterEvery(file, k, n) ==
    <<CreateSilence(self.sample_rate, GapTenths(Name(file)))>>
SilenceAfter(file, k, n) ==
    IF k # n - 1
    THEN <<CreateSilence(self.sample_rate, GapTenths(Name(file)))>>
    ELSE <<>>

\* logger.warning at line 74
ResampleWarning(file) ==
    IF Readable(file) /\ files[file].rate # self.sample_rate
    THEN <<<<"warning", "incorrect sample rate, resampling">>>> ELSE <<>>

\* the file sf.write(output_path, final_podcast, rate) leaves
WrittenAppending(final_podcast, rate) ==
    LET old == IF output_path \in DOMAIN files /\ files[output_path].kind = "audio"
               THEN files[output_path].data ELSE <<>>
    IN  [kind |-> "audio", rate |-> rate, channels |-> 1,
         frames |-> TotalLen(old \o final_podcast), data |-> old \o final_podcast]
Written(final_podcast, rate) ==
    [kind |-> "audio", rate |-> rate, channels |-> 1,
     frames |-> TotalLen(final_podcast), data |-> final_podcast]

\* one iteration of `for i, file in enumerate(audio_files)`
ProcessSegmentStreaming ==
    /\ pc = "loop"
    /\ i < Len(audio_files)
    /\ LET file == audio_files[i + 1]
           n    == Len(audio_files)
           r    == Processed(file, i, n)
       IN  IF ~r.ok
           THEN /\ Raise(r.err, ResampleWarning(file))
                /\ UNCHANGED <<podcast_segments, i, files>>
           ELSE /\ podcast_segments' =
                     Append(podcast_segments, r.val) \o SilenceAfter(file, i, n)
                /\ files' = (output_path :>
                               Written(Concatenate(podcast_segments'), self.sample_rate))
                            @@ files
                /\ i' = i + 1
                /\ log' = log \o ResampleWarning(file)
                /\ UNCHANGED <<pc, result>>
    /\ UNCHANGED memory
    /\ UNCHANGED <<self, dirs, call, audio_files, output_path, last_15s>>
ProcessSegment ==
    /\ pc = "loop"
    /\ i < Len(audio_files)
    /\ LET file == audio_files[i + 1]
           n    == Len(audio_files)
           r    == Processed(file, i, n)
       IN  IF ~r.ok
           THEN /\ Raise(r.err, ResampleWarning(file))
                /\ UNCHANGED <<podcast_segments, i>>
           ELSE /\ podcast_segments' =
                     Append(podcast_segments, r.val) \o SilenceAfter(file, i, n)
                /\ i' = i + 1
                /\ log' = log \o ResampleWarning(file)
                /\ UNCHANGED <<pc, result>>
    /\ UNCHANGED memory
    /\ UNCHANGED <<self, files, dirs, call, audio_files, output_path, last_15s>>

\* how a write can end: done; refused before the file is opened; or broken
\* off after the file was opened, which leaves a file without frames
WriteOutcomes == {"written", "refused", "torn"}

\* the order handed to np.concatenate at lines 101-103
AssembledTailFirst(segments, tail) == <<tail>> \o segments
Assembled(segments, tail) == Append(segments, tail)

\* lines 101-110, after the last iteration
Finish(outcome) ==
    /\ pc = "loop"
    /\ i = Len(audio_files)
    /\ LET segments      == Assembled(podcast_segments, Get(last_15s))
           final_podcast == Concatenate(segments)
       IN  /\ podcast_segments' = segments
           /\ IF outcome = "written"
              THEN /\ files' = (output_path :> Written(final_podcast, self.sample_rate))
                               @@ files
                   /\ result' = Returned(output_path)
                   /\ pc' = "done"
                   /\ log' = log \o <<<<"info", "Podcast assembly complete">>,
                                      <<"info", "Final podcast saved">>>>
              ELSE /\ files' = IF outcome = "torn"
                               THEN (output_path :> Written(<<>>, self.sample_rate))
                                    @@ files
                               ELSE files
                   /\ Raise([type |-> "OSError", text |-> "Error writing file"], <<>>)
    /\ UNCHANGED memory
    /\ UNCHANGED <<self, dirs, call, audio_files, output_path, last_15s, i>>

Next ==
    \/ pc = "idle" /\ \E a \in AudioFilesArgs, o \in OutputDirArgs : Call(a, o)
    \/ Resolve
    \/ MakeOutputDir
    \/ LoadMusic
    \/ ProcessSegment
    \/ \E outcome \in WriteOutcomes : Finish(outcome)

Spec == Init /\ [][Next]_vars

-----------------------------------------------------------------------------
(* The buffers of a call, in memory.  heap is the sequence of the arrays     *)
(* that exist, each given by its samples.  What a Python name refers to is   *)
(* a view [obj, from, len]: the array obj, or a slice of it, which shares    *)
(* the array's memory.  The steps below are those of assemble that make or   *)
(* change arrays, for the music and for one segment.                         *)

Whole(h, id) == [obj |-> id, from |-> 0, len |-> Count(h[id])]

\* the samples seen through a view
Seen(h, v) == Joined(Window(h[v.obj], v.from, v.from + v.len))

\* view[a:b]: numpy slices share memory
SliceOf(v, a, b) == [obj |-> v.obj, from |-> v.from + a, len |-> b - a]

\* a new array holding the given samples
Alloc(h, runs) ==
    [ok |-> TRUE, heap |-> Append(h, runs),
     ref |-> [obj |-> Len(h) + 1, from |-> 0, len |-> Count(runs)]]

\* an assignment through a view: view[:] = runs
Poke(h, v, runs) ==
    [h EXCEPT ![v.obj] = Before(@, v.from) \o runs \o After(@, v.from + v.len)]

\* _adjust_volume: `return audio` for 0 dB, else the new array `audio * factor`
MemAdjustVolumeInPlace(h, audio, db_change) ==
    [ok |-> TRUE, heap |-> Poke(h, audio, Scaled(Seen(h, audio), <<"gain", db_change>>)),
     ref |-> audio]
MemAdjustVolume(h, audio, db_change) ==
    IF db_change = 0 THEN [ok |-> TRUE, heap |-> h, ref |-> audio]
    ELSE Alloc(h, Scaled(Seen(h, audio), <<"gain", db_change>>))

\* `if volume is not None: buffer = self._adjust_volume(buffer, volume)`
MemWithVolumeAlwaysProduct(h, audio, volume) ==
    IF IsNone(volume) THEN [ok |-> TRUE, heap |-> h, ref |-> audio]
    ELSE Alloc(h, Scaled(Seen(h, audio), <<"gain", Get(volume)>>))
MemWithVolume(h, audio, volume) ==
    IF IsNone(volume) THEN [ok |-> TRUE, heap |-> h, ref |-> audio]
    ELSE MemAdjustVolume(h, audio, Get(volume))

\* _fade_in: audio.copy(), then the ramp on the copy's first samples
MemFadeInNoCopy(h, audio, rate) ==
    LET fade_length == SamplesOfTenths(rate, FadeTenths)
    IN  IF audio.len < fade_length THEN [ok |-> FALSE, heap |-> h, ref |-> audio]
        ELSE [ok |-> TRUE, heap |-> Poke(h, audio, RampedIn(Seen(h, audio), fade_length)),
              ref |-> audio]
MemFadeIn(h, audio, rate) ==
    LET fade_length == SamplesOfTenths(rate, FadeTenths)
        audio_copy  == Alloc(h, Seen(h, audio))
    IN  IF audio.len < fade_length THEN [audio_copy EXCEPT !.ok = FALSE]
        ELSE [audio_copy EXCEPT
                !.heap = Poke(@, audio_copy.ref,
                              RampedIn(Seen(@, audio_copy.ref), fade_length))]

\* _fade_out: audio.copy(), then the ramp on the copy's last samples
MemFadeOutNoCopy(h, audio, rate) ==
    LET fade_length == SamplesOfTenths(rate, FadeTenths)
    IN  IF audio.len < fade_length THEN [ok |-> FALSE, heap |-> h, ref |-> audio]
        ELSE [ok |-> TRUE, heap |-> Poke(h, audio, RampedOut(Seen(h, audio), fade_length)),
              ref |-> audio]
MemFadeOut(h, audio, rate) ==
    LET fade_length == SamplesOfTenths(rate, FadeTenths)
        audio_copy  == Alloc(h, Seen(h, audio))
    IN  IF audio.len < fade_length THEN [audio_copy EXCEPT !.ok = FALSE]
        ELSE [audio_copy EXCEPT
                !.heap = Poke(@, audio_copy.ref,
                              RampedOut(Seen(@, audio_copy.ref), fade_length))]

\* what every name's buffer holds
Snapshot == [n \in DOMAIN held |-> Seen(heap, held[n])]

\* lines 55-60: the track and its two excerpts, slices of the track when it
\* has 15 seconds and the track itself otherwise
MemLoadMusic ==
    /\ pc = "idle"
    /\ IF self.music_path \notin DOMAIN files
       THEN /\ Raise([type |-> "FileNotFoundError", text |-> "No such file or directory"],
                       <<<<"info", "Loading background music">>>>)
            /\ UNCHANGED <<heap, held>>
       ELSE LET loaded == Alloc(heap, Samples(Loaded(self.music_path,
                                    files[self.music_path], self.sample_rate)))
                music_audio == loaded.ref
                long == music_audio.len >= Samples15s
            IN  /\ heap' = loaded.heap
                /\ held' = [music_audio |-> music_audio,
                            first_15s |-> IF long THEN SliceOf(music_audio, 0, Samples15s)
                                          ELSE music_audio,
                            last_15s |-> IF long
                                         THEN SliceOf(music_audio,
                                                      music_audio.len - Samples15s,
                                                      music_audio.len)
                                         ELSE music_audio]
                /\ pc' = "intro"
                /\ UNCHANGED <<result, log>>
    /\ earlier' = None
    /\ UNCHANGED <<run, self, files, dirs, call, audio_files, output_path, last_15s,
                   podcast_segments, i>>

\* lines 63-64
MemGainIntro ==
    /\ pc = "intro"
    /\ LET r == MemWithVolume(heap, held.first_15s, self.bg_intro_volume)
       IN  /\ heap' = r.heap
           /\ held' = [held EXCEPT !.first_15s = r.ref]
    /\ earlier' = Some(Snapshot)
    /\ pc' = "outro"
    /\ UNCHANGED <<run, self, files, dirs, call, audio_files, output_path, last_15s,
                   podcast_segments, i, result, log>>

\* lines 65-66
MemGainOutro ==
    /\ pc = "outro"
    /\ LET r == MemWithVolume(heap, held.last_15s, self.bg_outro_volume)
       IN  /\ heap' = r.heap
           /\ held' = [held EXCEPT !.last_15s = r.ref]
    /\ earlier' = Some(Snapshot)
    /\ pc' = "read"
    /\ UNCHANGED <<run, self, files, dirs, call, audio_files, output_path, last_15s,
                   podcast_segments, i, result, log>>

\* lines 72-78: the segment's waveform, a new array
MemRead(file) ==
    /\ pc = "read"
    /\ IF ~Readable(file)
       THEN /\ Raise([type |-> "LibsndfileError", text |-> "Error opening file"], <<>>)
            /\ UNCHANGED <<heap, held>>
       ELSE LET r == Alloc(heap, Samples(MonoAtRate(file)))
            IN  /\ heap' = r.heap
                /\ held' = ("audio" :> r.ref) @@ held
                /\ log' = log \o ResampleWarning(file)
                /\ pc' = "vocal"
                /\ UNCHANGED result
    /\ earlier' = Some(Snapshot)
    /\ UNCHANGED <<run, self, files, dirs, call, audio_files, output_path, last_15s,
                   podcast_segments, i>>

\* lines 81-82
MemVocal ==
    /\ pc = "vocal"
    /\ LET r == MemWithVolume(heap, held.audio, self.vocal_volume)
       IN  /\ heap' = r.heap
           /\ held' = [held EXCEPT !.audio = r.ref]
    /\ earlier' = Some(Snapshot)
    /\ pc' = "fade"
    /\ UNCHANGED <<run, self, files, dirs, call, audio_files, output_path, last_15s,
                   podcast_segments, i, result, log>>

\* lines 85-88, for a first or a last segment: `audio = self._fade_in(audio)`.
\* The name given stands for the buffer that was handed to the helper.
MemFade(which) ==
    /\ pc = "fade"
    /\ LET r == IF which = "in" THEN MemFadeIn(heap, held.audio, self.sample_rate)
                ELSE MemFadeOut(heap, held.audio, self.sample_rate)
       IN  /\ heap' = r.heap
           /\ IF r.ok
              THEN /\ held' = ("given" :> held.audio) @@ [held EXCEPT !.audio = r.ref]
                   /\ pc' = "faded"
                   /\ UNCHANGED <<result, log>>
              ELSE /\ held' = ("given" :> held.audio) @@ held
                   /\ Raise([type |-> "ValueError", text |-> BroadcastText], <<>>)
    /\ earlier' = Some(Snapshot)
    /\ UNCHANGED <<run, self, files, dirs, call, audio_files, output_path, last_15s,
                   podcast_segments, i>>

NextMem ==
    \/ MemLoadMusic
    \/ MemGainIntro
    \/ MemGainOutro
    \/ \E file \in ListPaths : MemRead(file)
    \/ MemVocal
    \/ \E which \in {"in", "out"} : MemFade(which)

SpecMem == Init /\ [][NextMem]_vars

-----------------------------------------------------------------------------
(* Two calls on one assembler, one after the other.  When a call is over,   *)
(* the caller notes what it asked for and what it got, and calls again.     *)

RepeatAudioFiles ==
    { [form |-> "None", items |-> <<>>],
      [form |-> "list", items |-> <<P_a, P_c>>],
      [form |-> "list", items |-> <<P_c, P_a>>],
      [form |-> "dict", items |-> <<<<1, P_c>>, <<2, P_a>>>>] }
RepeatOutputDirs == {None, Some(D_final_ep1)}

\* what the caller notes of a call that is over
Noted ==
    [call |-> call, resolved |-> audio_files, result |-> result, self |-> self,
     output |-> IF result.kind = "returned" THEN files[result.path] ELSE OtherFile]

\* assemble has returned or raised; its locals are gone, the file system and
\* the assembler stay
Return ==
    /\ pc \in {"done", "raised"}
    /\ IsNone(earlier)
    /\ earlier' = Some(Noted)
    /\ pc' = "idle"
    /\ audio_files' = <<>>
    /\ output_path' = <<>>
    /\ last_15s' = None
    /\ podcast_segments' = <<>>
    /\ i' = 0
    /\ result' = NoResult
    /\ UNCHANGED <<self, files, dirs, call, log, heap, held, run>>

NextRepeat ==
    \/ pc = "idle" /\ \E a \in RepeatAudioFiles, o \in RepeatOutputDirs : Call(a, o)
    \/ Resolve
    \/ MakeOutputDir
    \/ LoadMusic
    \/ ProcessSegment
    \/ \E outcome \in WriteOutcomes : Finish(outcome)
    \/ Return

SpecRepeat == Init /\ [][NextRepeat]_vars

\* Two calls that differ in the music-body gain: between them the caller
\* sets bg_content_volume (or builds the assembler anew from a configuration
\* that differs in this one setting).
ContentVolumes == {None, Some(0), Some(-20)}

Reconfigure(volume) ==
    /\ pc \in {"done", "raised"}
    /\ IsNone(earlier)
    /\ volume # self.bg_content_volume
    /\ self' = [self EXCEPT !.bg_content_volume = volume]
    /\ earlier' = Some(Noted)
    /\ pc' = "idle"
    /\ audio_files' = <<>>
    /\ output_path' = <<>>
    /\ last_15s' = None
    /\ podcast_segments' = <<>>
    /\ i' = 0
    /\ result' = NoResult
    /\ UNCHANGED <<files, dirs, call, log, heap, held, run>>

NextRegain ==
    \/ pc = "idle" /\ \E a \in RepeatAudioFiles, o \in RepeatOutputDirs : Call(a, o)
    \/ Resolve
    \/ MakeOutputDir
    \/ LoadMusic
    \/ ProcessSegment
    \/ \E outcome \in WriteOutcomes : Finish(outcome)
    \/ \E volume \in ContentVolumes : Reconfigure(volume)

SpecRegain == Init /\ [][NextRegain]_vars

-----------------------------------------------------------------------------
(* The pipeline's audio stage feeding assemble: AudioGenerator.generate     *)
(* names and writes one file per intro, topic announcement, exchange and    *)
(* outro, and PodcastPipeline.run hands its mapping to assemble.            *)

s_00_intro_wav == <<48, 48, 95, 105, 110, 116, 114, 111, 46, 119, 97, 118>>  \* "00_intro.wav"
s_99_outro_wav == <<57, 57, 95, 111, 117, 116, 114, 111, 46, 119, 97, 118>>  \* "99_outro.wav"
s_0_topic_wav == <<95, 48, 95, 116, 111, 112, 105, 99, 46, 119, 97, 118>>  \* "_0_topic.wav"
s_underscore == <<95>>  \* "_"
s_speaker_ == <<95, 115, 112, 101, 97, 107, 101, 114, 95>>  \* "_speaker_"
s_Moderator == <<77, 111, 100, 101, 114, 97, 116, 111, 114>>  \* "Moderator"
s_Guest == <<71, 117, 101, 115, 116>>  \* "Guest"

\* str(n) for n >= 0
RECURSIVE Str(_)
Str(n) == IF n < 10 THEN <<48 + n>> ELSE Str(n \div 10) \o <<48 + (n % 10)>>

\* f'{n:02d}': at least two digits, zero-filled
Format02d(n) == IF n < 10 THEN <<48>> \o Str(n) ELSE Str(n)

\* str.lower() on ASCII text
Lower(text) ==
    [k \in 1..Len(text) |-> IF text[k] >= 65 /\ text[k] <= 90 THEN text[k] + 32
                            ELSE text[k]]

\* a podcast of the content stage: every turn of a topic adds a Moderator and
\* a Guest exchange; a podcast handed in from elsewhere can have any number
Exchanges(m) ==
    [j \in 1..m |-> [speaker |-> IF j % 2 = 1 THEN s_Moderator ELSE s_Guest]]
Podcasts ==
    { [topics |-> [k \in 1..t |-> [exchanges |-> Exchanges(m)]]] :
        t \in 0..MaxTopics, m \in 0..MaxExchanges }

\* the names generate gives the files of topic i
TopicName(n) == Format02d(n) \o s_0_topic_wav
ExchangeName(n, j, exchange) ==
    Format02d(n) \o s_underscore \o Str(j) \o s_speaker_
    \o Lower(exchange.speaker) \o s_dot_wav

\* the entries generate adds for topic n, in the order it adds them
TopicEntries(dir, n, topic) ==
    <<<< <<"topic", n>>, Join(dir, TopicName(n)) >>>>
    \o [j \in 1..Len(topic.exchanges) |->
          << <<"topic", n, "exchange", j>>,
             Join(dir, ExchangeName(n, j, topic.exchanges[j])) >>]

RECURSIVE TopicsEntries(_, _, _)
TopicsEntries(dir, topics, n) ==
    IF n > Len(topics) THEN <<>>
    ELSE TopicEntries(dir, n, topics[n]) \o TopicsEntries(dir, topics, n + 1)

\* AudioGenerator.generate: the mapping label -> path in insertion order
Generated(dir, podcast) ==
    <<<< <<"intro">>, Join(dir, s_00_intro_wav) >>>>
    \o TopicsEntries(dir, podcast.topics, 1)
    \o <<<< <<"outro">>, Join(dir, s_99_outro_wav) >>>>

\* _generate_audio_for_text: sf.write(output_path, final_audio, 24000)
Spoken == AudioFile(24000, 1, 24000)

\* stages 3 and 4 of PodcastPipeline.run: generate, then assemble(audio_files)
GenerateAudio(podcast) ==
    /\ pc = "idle"
    /\ LET mapping == Generated(D_output, podcast)
       IN  /\ files' = [p \in { mapping[k][2] : k \in 1..Len(mapping) } |-> Spoken]
                       @@ files
           /\ call' = [audio_files |-> [form |-> "dict", items |-> mapping],
                       output_dir |-> None]
    /\ pc' = "resolve"
    /\ log' = Append(log, <<"info", "Audio generation complete">>)
    /\ UNCHANGED memory
    /\ UNCHANGED <<self, dirs, audio_files, output_path, last_15s,
                   podcast_segments, i, result>>

\* the pipeline runs with the default volumes on a directory that holds the
\* music and nothing of an earlier run
InitPipeline ==
    /\ Init
    /\ self.vocal_volume = Some(0)
    /\ self.bg_intro_volume = Some(-12)
    /\ files = ClipFiles("bare") @@ MusicFiles("long")

NextPipeline ==
    \/ \E podcast \in Podcasts : GenerateAudio(podcast)
    \/ Resolve
    \/ MakeOutputDir
    \/ LoadMusic
    \/ ProcessSegment
    \/ \E outcome \in WriteOutcomes : Finish(outcome)

SpecPipeline == InitPipeline /\ [][NextPipeline]_vars

-----------------------------------------------------------------------------
(* cli.main and PodcastPipeline.run: the four stages, each behind its skip   *)
(* flag, the podcast saved as JSON between them, and the exit code.  run.at  *)
(* is where main is; the stages tell the logger when they start and when     *)
(* they are completed.                                                       *)

s_podcast_data_original_json == <<112, 111, 100, 99, 97, 115, 116, 95, 100, 97, 116, 97, 95, 111, 114, 105, 103, 105, 110, 97, 108, 46, 106, 115, 111, 110>>  \* "podcast_data_original.json"
s_podcast_data_json == <<112, 111, 100, 99, 97, 115, 116, 95, 100, 97, 116, 97, 46, 106, 115, 111, 110>>  \* "podcast_data.json"
s_podcast_data_translated_json == <<112, 111, 100, 99, 97, 115, 116, 95, 100, 97, 116, 97, 95, 116, 114, 97, 110, 115, 108, 97, 116, 101, 100, 46, 106, 115, 111, 110>>  \* "podcast_data_translated.json"

P_json_original == <<s_output, s_podcast_data_original_json>>
P_json == <<s_output, s_podcast_data_json>>
P_json_translated == <<s_output, s_podcast_data_translated_json>>

\* a Python dict: the pairs <<key, value>> in insertion order; d[key] = value
\* replaces the value of a key that is there and adds a pair otherwise
DictSet(d, key, value) ==
    IF \E j \in 1..Len(d) : d[j][1] = key
    THEN [j \in 1..Len(d) |-> IF d[j][1] = key THEN <<key, value>> ELSE d[j]]
    ELSE Append(d, <<key, value>>)

\* {topic.title: [exchange.__dict__ ...] for topic in self.topics}
RECURSIVE Conversations(_, _, _)
Conversations(topics, n, d) ==
    IF n > Len(topics) THEN d
    ELSE Conversations(topics, n + 1, DictSet(d, topics[n].title, topics[n].exchanges))

\* a key that is written only when its value is truthy
IfTruthy(value) == IF IsNone(value) \/ Get(value) = "" THEN None ELSE value

\* Podcast.to_dict
ToDict(podcast) ==
    [metadata |-> [title |-> podcast.title,
                   description |-> podcast.description,
                   timestamp |-> podcast.created_at,
                   document |-> podcast.document_text,
                   total_topics |-> Len(podcast.topics)],
     intro |-> podcast.intro,
     conversations |-> Conversations(podcast.topics, 1, <<>>),
     outro |-> podcast.outro,
     original_intro |-> IfTruthy(podcast.original_intro),
     original_outro |-> IfTruthy(podcast.original_outro)]

\* Podcast.from_dict
FromDict(data) ==
    [title |-> data.metadata.title,
     description |-> data.metadata.description,
     intro |-> data.intro,
     outro |-> data.outro,
     document_text |-> data.metadata.document,
     created_at |-> data.metadata.timestamp,
     original_intro |-> data.original_intro,
     original_outro |-> data.original_outro,
     topics |-> [n \in 1..Len(data.conversations) |->
                   [title |-> data.conversations[n][1],
                    exchanges |-> [j \in 1..Len(data.conversations[n][2]) |->
                        [speaker |-> data.conversations[n][2][j].speaker,
                         content |-> data.conversations[n][2][j].content,
                         timestamp |-> data.conversations[n][2][j].timestamp,
                         original_content |->
                             data.conversations[n][2][j].original_content]]]]]

\* the file json.dump(podcast.to_dict(), f) leaves
JsonFile(podcast) == [kind |-> "json", data |-> ToDict(podcast)]

\* most turns of a topic in a run of the pipeline
MaxTurns == 1

\* the podcasts of the runs: the topic generator's titles, which it may
\* repeat, and per topic the exchanges of MaxTurns turns at most
Titles == {"Budget", "Growth"}
Said(n, m) ==
    [j \in 1..m |-> [speaker |-> IF j % 2 = 1 THEN s_Moderator ELSE s_Guest,
                     content |-> <<"said", n, j>>,
                     timestamp |-> <<"at", n, j>>,
                     original_content |-> None]]
PodcastOf(titles, turns) ==
    [title |-> "", description |-> "", intro |-> "Welcome", outro |-> "Goodbye",
     document_text |-> "The document", created_at |-> "2025-01-01T00:00:00",
     original_intro |-> None, original_outro |-> None,
     topics |-> [n \in 1..Len(titles) |->
                   [title |-> titles[n], exchanges |-> Said(n, 2 * turns)]]]
RunPodcasts ==
    { PodcastOf(titles, turns) :
        titles \in UNION { [1..t -> Titles] : t \in 0..MaxTopics },
        turns \in 0..MaxTurns }

\* the flags --skip-content, --skip-translation, --skip-audio, --skip-assembly
SkipStages == [content : BOOLEAN, translation : BOOLEAN, audio : BOOLEAN,
               assembly : BOOLEAN]

\* utils/exceptions.py: the classes that are a PodcastGenerationError
IsPodcastGenerationError(type) ==
    type \in {"PodcastGenerationError", "ConfigurationError",
              "ContentGenerationError", "TranslationError",
              "AudioGenerationError", "AudioAssemblyError"}

\* what main can fail with before it calls run: load_config and from_source
\* (ValueError, TypeError), the constructors of the components (ValueError,
\* AudioGenerationError); "" when nothing fails
BeforeRun == {"", "ValueError", "TypeError", "AudioGenerationError"}

\* except Exception as e: raise PodcastGenerationError(f"Pipeline execution failed: {str(e)}")
RunWrappedBare(e) ==
    [kind |-> "raised", path |-> <<>>, type |-> e.type, text |-> e.text]
RunWrapped(e) ==
    [kind |-> "raised", path |-> <<>>, type |-> "PodcastGenerationError",
     text |-> <<"Pipeline execution failed: ">> \o e.text]

\* run leaves its try block with the exception e
Failed(e) == [run EXCEPT !.at = "raised", !.outcome = RunWrapped(e)]

\* the variables of a call of assemble
assembling == <<pc, call, audio_files, output_path, last_15s, podcast_segments,
                i, result>>

\* main, lines 201-246: everything up to the call of run
Main(skip_stages, before) ==
    /\ run.at = "off"
    /\ pc = "idle"
    /\ IF before # ""
       THEN /\ run' = [at |-> "raised", started |-> FALSE, skip |-> skip_stages,
                       podcast |-> None, audio_files |-> None,
                       outcome |-> [kind |-> "raised", path |-> <<>>,
                                    type |-> before, text |-> <<>>],
                       exit |-> None]
            /\ UNCHANGED <<dirs, log>>
       ELSE /\ run' = [at |-> "content", started |-> TRUE, skip |-> skip_stages,
                       podcast |-> None, audio_files |-> None,
                       outcome |-> NoResult, exit |-> None]
            /\ dirs' = Mkdir(dirs, self.audio_dir)
            /\ log' = Append(log, <<"info", "Starting podcast generation pipeline">>)
    /\ UNCHANGED <<self, files, heap, held, earlier, assembling>>

\* stage 1, lines 62-81: generate the podcast and save it, or load it
ContentStage(podcast, fails) ==
    /\ run.at = "content"
    /\ IF ~run.skip.content
       THEN IF fails
            THEN /\ run' = Failed([type |-> "RuntimeError", text |-> <<"content">>])
                 /\ log' = Append(log, <<"info", "Starting content generation">>)
                 /\ UNCHANGED files
            ELSE /\ run' = [run EXCEPT !.at = "translation", !.podcast = Some(podcast)]
                 /\ files' = (P_json_original :> JsonFile(podcast)) @@ files
                 /\ log' = log \o <<<<"info", "Starting content generation">>,
                                    <<"info", "Content generation completed">>>>
       ELSE LET podcast_json_path ==
                    IF P_json_original \in DOMAIN files THEN P_json_original
                    ELSE P_json
            IN  /\ log' = Append(log, <<"info", "Skipping content generation">>)
                /\ UNCHANGED files
                /\ IF podcast_json_path \notin DOMAIN files
                   THEN run' = Failed([type |-> "FileNotFoundError",
                                       text |-> <<"No such file or directory">>])
                   ELSE run' = [run EXCEPT
                                  !.at = "translation",
                                  !.podcast = Some(FromDict(files[podcast_json_path].data))]
    /\ UNCHANGED <<self, dirs, heap, held, earlier, assembling>>

\* stage 2, lines 84-94: the content is English already, process returns the
\* podcast as it is, and it is saved
TranslationStageAlways(fails) ==
    /\ run.at = "translation"
    /\ IF fails
       THEN /\ run' = Failed([type |-> "RuntimeError", text |-> <<"translation">>])
            /\ log' = Append(log, <<"info", "Starting translation processing">>)
            /\ UNCHANGED files
       ELSE /\ run' = [run EXCEPT !.at = "audio"]
            /\ files' = (P_json_translated :> JsonFile(Get(run.podcast))) @@ files
            /\ log' = log \o <<<<"info", "Starting translation processing">>,
                               <<"info", "Translation completed">>>>
    /\ UNCHANGED <<self, dirs, heap, held, earlier, assembling>>
TranslationStage(fails) ==
    /\ run.at = "translation"
    /\ IF run.skip.translation
       THEN /\ ~fails
            /\ run' = [run EXCEPT !.at = "audio"]
            /\ UNCHANGED <<files, log>>
       ELSE IF fails
       THEN /\ run' = Failed([type |-> "RuntimeError", text |-> <<"translation">>])
            /\ log' = Append(log, <<"info", "Starting translation processing">>)
            /\ UNCHANGED files
       ELSE /\ run' = [run EXCEPT !.at = "audio"]
            /\ files' = (P_json_translated :> JsonFile(Get(run.podcast))) @@ files
            /\ log' = log \o <<<<"info", "Starting translation processing">>,
                               <<"info", "Translation completed">>>>
    /\ UNCHANGED <<self, dirs, heap, held, earlier, assembling>>

\* stage 3, lines 97-103: audio_files = self.audio_generator.generate(podcast)
AudioStage(fails) ==
    /\ run.at = "audio"
    /\ IF run.skip.audio
       THEN /\ ~fails
            /\ run' = [run EXCEPT !.at = "assembly"]
            /\ UNCHANGED <<files, log>>
       ELSE IF fails
       THEN /\ run' = Failed([type |-> "AudioGenerationError", text |-> <<"audio">>])
            /\ log' = Append(log, <<"info", "Starting audio generation">>)
            /\ UNCHANGED files
       ELSE LET mapping == Generated(D_output, Get(run.podcast))
            IN  /\ files' = [p \in { mapping[k][2] : k \in 1..Len(mapping) } |-> Spoken]
                            @@ files
                /\ run' = [run EXCEPT !.at = "assembly", !.audio_files = Some(mapping)]
                /\ log' = log \o <<<<"info", "Starting audio generation">>,
                                   <<"info", "Audio generation completed">>>>
    /\ UNCHANGED <<self, dirs, heap, held, earlier, assembling>>

\* stage 4, lines 106-115: assemble(audio_files), or the default path
AssemblyStage ==
    /\ run.at = "assembly"
    /\ IF run.skip.assembly
       THEN /\ run' = [run EXCEPT
                         !.at = "returned",
                         !.outcome = Returned(Join(self.audio_dir, self.output_file))]
            /\ UNCHANGED <<pc, call, log>>
       ELSE /\ run' = [run EXCEPT !.at = "assembling"]
            /\ call' = [audio_files |->
                            IF IsNone(run.audio_files)
                            THEN [form |-> "None", items |-> <<>>]
                            ELSE [form |-> "dict", items |-> Get(run.audio_files)],
                        output_dir |-> None]
            /\ pc' = "resolve"
            /\ log' = Append(log, <<"info", "Starting audio assembly">>)
    /\ UNCHANGED <<self, files, dirs, heap, held, earlier, audio_files, output_path,
                   last_15s, podcast_segments, i, result>>

\* assemble has returned or raised: lines 110-123, or the handler at 125-127
AssemblyOver ==
    /\ run.at = "assembling"
    /\ pc \in {"done", "raised"}
    /\ IF pc = "done"
       THEN /\ run' = [run EXCEPT !.at = "returned", !.outcome = Returned(result.path)]
            /\ log' = Append(log, <<"info", "Audio assembly completed">>)
       ELSE /\ run' = Failed([type |-> result.type, text |-> result.text])
            /\ UNCHANGED log
    /\ UNCHANGED <<self, files, dirs, heap, held, earlier, assembling>>

\* main, lines 248-259: the exit code
ExitCode(outcome) ==
    IF outcome.kind = "returned" THEN 0
    ELSE IF IsPodcastGenerationError(outcome.type) THEN 1
    ELSE 2

MainExit ==
    /\ run.at \in {"returned", "raised"}
    /\ run' = [run EXCEPT !.at = "exited", !.exit = Some(ExitCode(run.outcome))]
    /\ UNCHANGED <<self, files, dirs, log, heap, held, earlier, assembling>>

\* what an earlier run may have left in the output directory: nothing, the
\* podcast it saved, or a podcast file of the older name
SavedFiles ==
    { <<>> }
    \cup { (P_json_original :> JsonFile(PodcastOf(titles, 1))) :
             titles \in [1..MaxTopics -> Titles] }
    \cup { (P_json :> JsonFile(PodcastOf(<<"Budget">>, 1))) }

\* the pipeline is built with the default volumes on an output directory that
\* is empty or holds the clips of an earlier run
InitRun ==
    /\ self = [audio_dir |-> D_output, output_file |-> s_podcast_wav,
               music_path |-> P_music, sample_rate |-> SampleRate,
               vocal_volume |-> Some(0), bg_intro_volume |-> Some(-12),
               bg_content_volume |-> Some(-20), bg_outro_volume |-> Some(-12)]
    /\ \E scenario \in {"bare", "plain"}, saved \in SavedFiles :
         files = (ClipFiles(scenario) @@ MusicFiles("long")) @@ saved
    /\ dirs = {D_output, D_sub, D_old_topic, D_music}
    /\ pc = "idle"
    /\ call = [audio_files |-> [form |-> "None", items |-> <<>>], output_dir |-> None]
    /\ audio_files = <<>>
    /\ output_path = <<>>
    /\ last_15s = None
    /\ podcast_segments = <<>>
    /\ i = 0
    /\ result = NoResult
    /\ log = <<>>
    /\ heap = <<>>
    /\ held = <<>>
    /\ earlier = None
    /\ run = NoRun

NextRun ==
    \/ \E skip_stages \in SkipStages, before \in BeforeRun : Main(skip_stages, before)
    \/ \E podcast \in RunPodcasts, fails \in BOOLEAN : ContentStage(podcast, fails)
    \/ \E fails \in BOOLEAN : TranslationStage(fails)
    \/ \E fails \in BOOLEAN : AudioStage(fails)
    \/ AssemblyStage
    \/ Resolve
    \/ MakeOutputDir
    \/ LoadMusic
    \/ ProcessSegment
    \/ \E outcome \in WriteOutcomes : Finish(outcome)
    \/ AssemblyOver
    \/ MainExit

SpecRun == InitRun /\ [][NextRun]_vars

-----------------------------------------------------------------------------
(* Properties of assemble *)

\* number of segments of the call
NSegs == Len(audio_files)

\* the music track as the call loads it, and its two excerpts
MusicTrack == Loaded(self.music_path, files[self.music_path], self.sample_rate)
HeadExcerpt == WithVolume(First15s(MusicTrack), self.bg_intro_volume)
TailExcerpt == WithVolume(Last15s(MusicTrack), self.bg_outro_volume)

\* the entry of podcast_segments for segment k (from 0) and the entry that
\* follows it
SegAt(k) == podcast_segments[2 * k + 2]
GapAt(k) == podcast_segments[2 * k + 3]

HasOp(a, name) == \E j \in 1..Len(a.ops) : a.ops[j][1] = name

IsSilence(a) == a.src = <<"zeros">> /\ a.ops = <<>> /\ NDim(a) = 1

\* the segments whose iteration is over
DoneSegs == IF pc \in {"loop", "done"} THEN 0..(i - 1) ELSE {}

\* C1: after a successful call with n >= 1 segments, what was written is the
\* concatenation of the head excerpt, then each segment's processed waveform
\* in resolved order, each but the last followed by one silence, then the
\* tail excerpt, and of nothing else.
C1_OutputIsHeadSegmentsTail ==
    (pc = "done" /\ NSegs >= 1) =>
        /\ Len(podcast_segments) = 2 * NSegs + 1
        /\ podcast_segments[1] = HeadExcerpt
        /\ \A k \in 0..(NSegs - 1) :
               SegAt(k) = Processed(audio_files[k + 1], k, NSegs).val
        /\ \A k \in 0..(NSegs - 2) : IsSilence(GapAt(k))
        /\ podcast_segments[2 * NSegs + 1] = TailExcerpt
        /\ files[output_path].data = Concatenate(podcast_segments)
        /\ files[output_path].frames = TotalLen(podcast_segments)

C1_Witness ==
    /\ pc = "done"
    /\ call.audio_files.form = "dict"
    /\ audio_files = <<P_a, P_c, P_x>>

\* C2: for each of the three input forms, a call whose resolved segment list
\* is empty ends with an error raised before the music is loaded, and no
\* output file is written.
C2_EmptyInputFailsFast ==
    (pc \in {"done", "raised"} /\ audio_files = <<>>) =>
        /\ pc = "raised"
        /\ IsNone(last_15s)
        /\ Join(OutputDir(call.output_dir), self.output_file) \notin DOMAIN files

\* the texts the failing steps raise with
CausesOfStep ==
    CASE pc = "resolve" -> {"No WAV files found in audio_dir"}
      [] pc = "mkdir"   -> {"File exists"}
      [] pc = "music"   -> {"No such file or directory"}
      [] pc = "loop" /\ i < NSegs -> {"Error opening file", BroadcastText}
      [] pc = "loop" /\ i = NSegs -> {"Error writing file"}
      [] OTHER          -> {}

\* C3: whatever step of assemble fails, the exception that reaches the caller
\* is an AudioAssemblyError whose message contains the text of the cause.
C3_EveryFailureIsAssemblyError ==
    [][ (pc # "raised" /\ pc' = "raised") =>
            /\ result'.kind = "raised"
            /\ result'.type = "AudioAssemblyError"
            /\ \E j \in 1..Len(result'.text) : result'.text[j] \in CausesOfStep ]_vars

C3_Witness ==
    /\ pc = "raised"
    /\ i = 1
    /\ result.text[2] = BroadcastText

\* C4: a successful call returns output directory / configured file name,
\* the output directory being the override when given and the working
\* directory otherwise; the directory and its parents exist afterwards and
\* the assembled audio is the content of the returned path.
C4_ReturnsWrittenPath ==
    pc = "done" =>
        LET dir == IF IsNone(call.output_dir) THEN self.audio_dir
                   ELSE Get(call.output_dir)
        IN  /\ result.kind = "returned"
            /\ result.path = dir \o <<self.output_file>>
            /\ \A k \in 1..Len(dir) : SubSeq(dir, 1, k) \in dirs
            /\ result.path \in DOMAIN files
            /\ files[result.path].kind = "audio"
            /\ files[result.path].rate = 24000
            /\ files[result.path].data = Concatenate(podcast_segments)

C4_Witness ==
    /\ pc = "done"
    /\ call.output_dir = Some(D_final_ep1)
    /\ result.path = <<s_final, s_ep1, s_podcast_wav>>
    /\ NSegs = 2

\* the elements of seq whose base name is nm, in their order
RECURSIVE WithName(_, _)
WithName(seq, nm) ==
    IF seq = <<>> THEN <<>>
    ELSE (IF Name(seq[1]) = nm THEN <<seq[1]>> ELSE <<>>) \o WithName(Tail(seq), nm)

\* C5: for a mapping, the processing order is the mapping's paths in ascending
\* order of base name, whatever the labels and the directories; paths of equal
\* base name keep their insertion order.
C5_MappingSortedByBaseName ==
    (pc \notin {"idle", "resolve"} /\ call.audio_files.form = "dict") =>
        LET given == Values(call.audio_files.items)
        IN  /\ Len(audio_files) = Len(given)
            /\ \A j \in 1..(Len(audio_files) - 1) :
                   ~StrLt(Name(audio_files[j + 1]), Name(audio_files[j]))
            /\ \A p \in MappingPaths :
                   WithName(audio_files, Name(p)) = WithName(given, Name(p))

C5_Witness ==
    /\ pc = "mkdir"
    /\ call.audio_files.form = "dict"
    /\ call.audio_files.items = <<<<3, P_c>>, <<2, P_x>>, <<1, P_a>>>>
    /\ audio_files = <<P_a, P_c, P_x>>

\* C6: for an explicit list, the segments are processed in the order of the
\* list, unsorted and with its repetitions; the fade-in goes to the first list
\* element and to no other, the fade-out to no element but the last, which
\* gets it whenever the list has a second element.
C6_ListOrderKept ==
    (pc \notin {"idle", "resolve"} /\ call.audio_files.form = "list") =>
        /\ audio_files = call.audio_files.items
        /\ \A k \in DoneSegs :
               /\ SegAt(k).src = <<"file", call.audio_files.items[k + 1]>>
               /\ HasOp(SegAt(k), "fade_in") <=> k = 0
               /\ HasOp(SegAt(k), "fade_out") => k = NSegs - 1
               /\ (k = NSegs - 1 /\ NSegs >= 2) => HasOp(SegAt(k), "fade_out")

C6_Witness ==
    /\ pc = "done"
    /\ call.audio_files.form = "list"
    /\ call.audio_files.items = <<P_b, P_a, P_a>>

\* C7: with segments omitted, the resolved list is the .wav files lying
\* directly in the working directory, in ascending name order; a file with
\* another extension or in a sub-directory is not in it.
C7_ScanIsWavFilesOfWorkingDir ==
    (pc \in {"mkdir", "music", "loop"} /\ call.audio_files.form = "None") =>
        /\ \A j \in 1..(NSegs - 1) :
               StrLt(Name(audio_files[j]), Name(audio_files[j + 1]))
        /\ { audio_files[j] : j \in 1..NSegs } =
               { p \in DOMAIN files :
                   /\ p = self.audio_dir \o <<Name(p)>>
                   /\ EndsWith(Name(p), s_dot_wav) }
        /\ \A j \in 1..NSegs : audio_files[j] \notin {P_notes, P_sub_d}

C7_Witness ==
    /\ pc = "mkdir"
    /\ call.audio_files.form = "None"
    /\ {P_notes, P_sub_d} \subseteq DOMAIN files
    /\ audio_files = <<P_a, P_b, P_bt, P_c, P_e>>

\* C8: the silence behind a non-final segment is 36000 zero samples when the
\* segment's base name contains _topic, else 16800 when it contains _speaker,
\* else 24000.
C8_SilenceLengths ==
    \A k \in DoneSegs :
        k < NSegs - 1 =>
            LET nm == Name(audio_files[k + 1])
            IN  /\ IsSilence(GapAt(k))
                /\ ALen(GapAt(k)) = IF Contains(nm, s_topic) THEN 36000
                                    ELSE IF Contains(nm, s_speaker) THEN 16800
                                    ELSE 24000

C8_Witness ==
    /\ pc = "loop"
    /\ i = 4
    /\ audio_files = <<P_a, P_b, P_bt, P_c, P_e>>
    /\ ALen(GapAt(0)) = 36000
    /\ ALen(GapAt(1)) = 16800
    /\ ALen(GapAt(3)) = 24000

\* C9: a successful call with n >= 1 segments holds exactly n-1 silences, one
\* behind each of the segments 0..n-2: none behind the final segment, none
\* between the head excerpt and segment 0, none before the tail excerpt.
C9_SilenceCount ==
    (pc = "done" /\ NSegs >= 1) =>
        LET last == Len(podcast_segments)
            silent == { j \in 1..last : podcast_segments[j].src = <<"zeros">> }
        IN  /\ Cardinality(silent) = NSegs - 1
            /\ silent = { 2 * k + 3 : k \in 0..(NSegs - 2) }
            /\ podcast_segments[1].src[1] = "music"
            /\ podcast_segments[2].src[1] = "file"
            /\ podcast_segments[last - 1].src = <<"file", audio_files[NSegs]>>
            /\ podcast_segments[last].src[1] = "music"

C9_Witness ==
    /\ pc = "done"
    /\ NSegs = 3
    /\ Contains(Name(audio_files[3]), s_topic)

\* C10: segment 0 gets the fade-in and no fade-out; segment n-1 gets the
\* fade-out when n >= 2; any other segment gets no fade; no segment gets both.
C10_FadePlacement ==
    \A k \in DoneSegs :
        LET in  == HasOp(SegAt(k), "fade_in")
            out == HasOp(SegAt(k), "fade_out")
        IN  /\ k = 0 => (in /\ ~out)
            /\ (k = NSegs - 1 /\ NSegs >= 2) => (out /\ ~in)
            /\ (0 < k /\ k < NSegs - 1) => (~in /\ ~out)
            /\ ~(in /\ out)

C10_Witness ==
    /\ pc = "done"
    /\ NSegs = 1
    /\ HasOp(SegAt(0), "fade_in")
    /\ ~HasOp(SegAt(0), "fade_out")

\* C11: the fade-in changes only the first 12000 samples of segment 0 and the
\* fade-out only the last 12000 samples of segment n-1; every other sample of
\* these segments and every sample of any other segment is the sample the
\* segment had before the fade step, and no segment changes its length.
C11_FadesTouchOnlyTheirWindow ==
    \A k \in DoneSegs :
        LET before == Prepared(audio_files[k + 1])
            after  == SegAt(k)
            len    == ALen(before)
            from   == IF k = 0 THEN 12000 ELSE 0
            to     == IF k # 0 /\ k = NSegs - 1 THEN len - 12000 ELSE len
        IN  /\ ALen(after) = len
            /\ Count(Samples(after)) = len
            /\ Joined(Window(Samples(after), from, to))
                   = Joined(Window(Samples(before), from, to))

C11_Witness ==
    /\ pc = "done"
    /\ NSegs = 3
    /\ ALen(SegAt(0)) > 12000
    /\ ALen(SegAt(2)) > 12000
    /\ Before(Samples(SegAt(0)), 12000) # Before(Samples(Prepared(audio_files[1])), 12000)
    /\ After(Samples(SegAt(2)), ALen(SegAt(2)) - 12000)
           # After(Samples(Prepared(audio_files[3])), ALen(SegAt(2)) - 12000)
    /\ Samples(SegAt(1)) = Samples(Prepared(audio_files[2]))

\* C12: a fade never modifies the buffer it is given: it works on a copy of
\* its own and returns the copy, so the given buffer, and every other buffer
\* the caller holds, has the samples after the fade that it had before.
C12_FadesWorkOnACopy ==
    "given" \in DOMAIN held =>
        LET was == Get(earlier)
        IN  /\ Seen(heap, held.given) = was.audio
            /\ \A n \in DOMAIN was : n # "audio" => Seen(heap, held[n]) = was[n]
            /\ pc = "faded" =>
                   /\ held.audio.obj # held.given.obj
                   /\ \A n \in DOMAIN was \ {"audio"} : held.audio.obj # held[n].obj
                   /\ Seen(heap, held.audio) \in
                          { Joined(RampedIn(was.audio, 12000)),
                            Joined(RampedOut(was.audio, 12000)) }

C12_Witness ==
    /\ pc = "faded"
    /\ self.vocal_volume = Some(0)
    /\ held.given.len > 12000
    /\ Seen(heap, held.audio) # Seen(heap, held.given)
    /\ Seen(heap, held.audio) = Joined(RampedOut(Get(earlier).audio, 12000))

\* f[0] + ... + f[n-1]
RECURSIVE Sum(_, _)
Sum(f, n) == IF n = 0 THEN 0 ELSE f[n - 1] + Sum(f, n - 1)

\* C13: the written file has as many samples as its parts together: the head
\* excerpt, every processed segment, every silence and the tail excerpt.  For
\* the one-second segments a_topic.wav, b_speaker.wav, c.wav, a 20-second
\* track and no gains that is 844800 samples.
C13_LengthIsSumOfParts ==
    pc = "done" =>
        LET out   == files[output_path]
            seg   == [k \in 0..(NSegs - 1) |-> ALen(Prepared(audio_files[k + 1]))]
            gap   == [k \in 0..(NSegs - 2) |->
                        SamplesOfTenths(24000, GapTenths(Name(audio_files[k + 1])))]
            gaps  == IF NSegs = 0 THEN 0 ELSE Sum(gap, NSegs - 1)
        IN  /\ out.frames = ALen(First15s(MusicTrack)) + Sum(seg, NSegs) + gaps
                            + ALen(Last15s(MusicTrack))
            /\ out.frames = Sum([k \in 0..(Len(out.data) - 1) |->
                                    Count(Samples(out.data[k + 1]))], Len(out.data))
            /\ ( /\ audio_files = <<P_a, P_b, P_c>>
                 /\ \A k \in 1..3 : files[audio_files[k]] = AudioFile(24000, 1, 24000)
                 /\ ALen(MusicTrack) = 20 * 24000
                 /\ IsNone(self.vocal_volume) /\ IsNone(self.bg_intro_volume)
                 /\ IsNone(self.bg_outro_volume) )
               => out.frames = 844800

C13_Witness ==
    /\ pc = "done"
    /\ audio_files = <<P_a, P_b, P_c>>
    /\ IsNone(self.vocal_volume) /\ IsNone(self.bg_intro_volume)
    /\ IsNone(self.bg_outro_volume)
    /\ ALen(MusicTrack) = 480000
    /\ files[output_path].frames = 844800

\* samples after a configured gain: None and 0 dB leave them as they are
Gained(runs, volume) ==
    IF IsNone(volume) \/ volume = Some(0) THEN runs
    ELSE Scaled(runs, <<"gain", Get(volume)>>)

\* the excerpts a call holds once the music is loaded
ExcerptsAreEndsOfTrack ==
    pc \in {"loop", "done"} =>
        LET track == Samples(MusicTrack)
            n     == ALen(MusicTrack)
            head  == Samples(podcast_segments[1])
            tail  == Samples(Get(last_15s))
        IN  /\ n >= 360000 =>
                  /\ head = Gained(Window(track, 0, 360000), self.bg_intro_volume)
                  /\ tail = Gained(Window(track, n - 360000, n), self.bg_outro_volume)
            /\ n < 360000 =>
                  /\ head = Gained(track, self.bg_intro_volume)
                  /\ tail = Gained(track, self.bg_outro_volume)
            /\ pc = "done" =>
                  /\ Samples(files[output_path].data[1]) = head
                  /\ Samples(files[output_path].data[Len(files[output_path].data)]) = tail

\* C14: with a track of at least 360000 samples the head excerpt is its
\* first 360000 samples and the tail excerpt its last 360000; with a shorter
\* track each excerpt is the whole track, which then opens and closes the
\* output; and the step that loads an existing track, short or long, never
\* fails.
C14_ExcerptsOfTrack ==
    /\ []ExcerptsAreEndsOfTrack
    /\ [][ (pc = "music" /\ self.music_path \in DOMAIN files) => pc' = "loop" ]_vars

C14_Witness ==
    /\ pc = "done"
    /\ NSegs = 2
    /\ ALen(MusicTrack) = 120000
    /\ ALen(files[output_path].data[1]) = 120000
    /\ ALen(files[output_path].data[5]) = 120000
    /\ files[output_path].frames = 120000 + 24000 + 36000 + 24000 + 120000

\* C15: the intro gain changes the head excerpt and nothing else, the outro
\* gain the tail excerpt and nothing else, and a gain of None changes
\* nothing; so also when the track is short and both excerpts are the one
\* buffer of the whole track.
C15_GainsAreIndependent ==
    /\ pc = "outro" =>
           LET was == Get(earlier)
           IN  /\ Seen(heap, held.first_15s) = Gained(was.first_15s, self.bg_intro_volume)
               /\ Seen(heap, held.last_15s) = was.last_15s
               /\ Seen(heap, held.music_audio) = was.music_audio
    /\ pc = "read" =>
           LET was == Get(earlier)
           IN  /\ Seen(heap, held.last_15s) = Gained(was.last_15s, self.bg_outro_volume)
               /\ Seen(heap, held.first_15s) = was.first_15s
               /\ Seen(heap, held.music_audio) = was.music_audio

C15_Witness ==
    /\ pc = "read"
    /\ held.music_audio.len < 360000
    /\ held.first_15s = held.music_audio
    /\ self.bg_outro_volume = Some(-3)
    /\ Get(earlier).last_15s = Get(earlier).first_15s
    /\ Seen(heap, held.last_15s) # Seen(heap, held.first_15s)

\* the arrays a gain step makes: the product `audio * factor` is a new array
Products(volume) == IF IsNone(volume) \/ volume = Some(0) THEN 0 ELSE 1

RescaledDown(n, rate, sr) ==
    LET g == GCD(rate, sr) IN (n * (rate \div g)) \div (sr \div g)

\* C17: a segment whose file is not at 24000 Hz is resampled so that its
\* duration is kept (its frames times 24000 / rate, up to rounding), mono or
\* multi-channel alike, with a warning logged and the call going on.
C17_ResamplingKeepsDuration ==
    \A k \in DoneSegs :
        LET f == files[audio_files[k + 1]]
        IN  f.rate # 24000 =>
                /\ ALen(SegAt(k)) \in { RescaledDown(f.frames, 24000, f.rate),
                                        Rescaled(f.frames, 24000, f.rate) }
                /\ \E j \in 1..Len(log) : log[j][1] = "warning"

\* C19: every buffer appended to podcast_segments is one-dimensional and at
\* 24000 frames per second, whatever the channel count and the rate of the
\* segment's file (silence, made of zeros, has no rate of its own).
C19_EveryBufferMonoAt24000 ==
    \A j \in 1..Len(podcast_segments) :
        /\ NDim(podcast_segments[j]) = 1
        /\ podcast_segments[j].rate \in {24000, 0}
        /\ podcast_segments[j].rate = 0 => IsSilence(podcast_segments[j])

\* C18: two calls that resolve to the same ordered list of segments, with
\* the same music and the same configuration, write outputs of the same
\* length and the same samples.
C18_SameInputsSameOutput ==
    ( /\ pc = "done"
      /\ ~IsNone(earlier)
      /\ Get(earlier).result.kind = "returned"
      /\ Get(earlier).resolved = audio_files )
    => LET first  == Get(earlier).output
           second == files[output_path]
       IN  /\ second.frames = first.frames
           /\ second.rate = first.rate
           /\ second.data = first.data
           /\ [k \in 1..Len(second.data) |-> Samples(second.data[k])]
                  = [k \in 1..Len(first.data) |-> Samples(first.data[k])]

C18_Witness ==
    /\ pc = "done"
    /\ ~IsNone(earlier)
    /\ Get(earlier).result.kind = "returned"
    /\ Get(earlier).resolved = <<P_a, P_c>>
    /\ audio_files = <<P_a, P_c>>
    /\ Get(earlier).call.audio_files.form = "list"
    /\ call.audio_files.form = "dict"
    /\ Get(earlier).result.path = output_path
    /\ files[output_path].frames > 0

\* C20: when the pipeline hands the generator's mapping to assemble, the
\* order by file name is the order of generation: 00_intro, then per topic
\* its announcement and its exchanges 1, 2, ..., m, then 99_outro; for any
\* number of exchanges per topic, the 12 of the default 6 turns included.
C20_NameOrderIsGenerationOrder ==
    pc \notin {"idle", "resolve"} => audio_files = Values(call.audio_files.items)

\* C21: the music-body gain is never applied: two calls that differ in
\* bg_content_volume only (None included) and resolve the same segments
\* write the same output.
C21_ContentGainIsNeverApplied ==
    ( /\ pc = "done"
      /\ ~IsNone(earlier)
      /\ Get(earlier).result.kind = "returned"
      /\ Get(earlier).resolved = audio_files
      /\ Get(earlier).self = [self EXCEPT !.bg_content_volume =
                                  Get(earlier).self.bg_content_volume] )
    => /\ files[output_path].data = Get(earlier).output.data
       /\ files[output_path].frames = Get(earlier).output.frames
       /\ files[output_path].rate = Get(earlier).output.rate

C21_Witness ==
    /\ pc = "done"
    /\ ~IsNone(earlier)
    /\ Get(earlier).result.kind = "returned"
    /\ Get(earlier).resolved = audio_files
    /\ NSegs = 2
    /\ Get(earlier).self.bg_content_volume = Some(-20)
    /\ self.bg_content_volume = None
    /\ self.bg_intro_volume = Some(-12)

\* C22: within one call the file system changes in one step only, the write
\* that follows the last segment, and only at the output path; a call that
\* fails before that step leaves every file as it was, and a call that
\* returns has written the concatenation of all its buffers.
C22_WrittenOnceAtTheEnd ==
    [][ /\ files' # files =>
              /\ pc = "loop" /\ i = NSegs
              /\ pc' \in {"done", "raised"}
              /\ \A p \in (DOMAIN files \cup DOMAIN files') \ {output_path} :
                     p \in DOMAIN files /\ p \in DOMAIN files' /\ files'[p] = files[p]
        /\ (pc' = "raised" /\ ~(pc = "loop" /\ i = NSegs)) => files' = files
        /\ pc \in {"done", "raised"} => files' = files
        /\ (pc # "done" /\ pc' = "done") =>
              /\ output_path \notin DOMAIN files
              /\ files'[output_path].data = Concatenate(podcast_segments')
              /\ Len(podcast_segments') = 2 * NSegs + (IF NSegs = 0 THEN 2 ELSE 1) ]_vars

C22_Witness ==
    /\ pc = "raised"
    /\ i = 2
    /\ Len(podcast_segments) = 5
    /\ output_path # <<>>
    /\ output_path \notin DOMAIN files
    /\ result.text[2] = "Error opening file"

\* the entries of the log that tell of the music being loaded
MusicLoads == {j \in DOMAIN log : log[j] = <<"info", "Loading background music">>}

\* what a call given the list items builds from the files as they are
BuiltFrom(items) ==
    /\ audio_files = items
    /\ Len(podcast_segments) = 2 * Len(items) + 1
    /\ podcast_segments[1] = HeadExcerpt
    /\ \A k \in 0..(Len(items) - 1) :
           /\ Processed(items[k + 1], k, Len(items)).ok
           /\ SegAt(k) = Processed(items[k + 1], k, Len(items)).val
    /\ \A k \in 0..(Len(items) - 2) :
           <<GapAt(k)>> = SilenceAfter(items[k + 1], k, Len(items))
    /\ podcast_segments[2 * Len(items) + 1] = TailExcerpt
    /\ files[output_path].data = Concatenate(podcast_segments)

\* C23: no step of assemble changes a field of the assembler, and a call
\* given an explicit list, made after another call on the same assembler that
\* returned or failed, builds its output from the list, the files and the
\* music alone; the music is loaded in every call that gets that far.
C23_CallsShareNoState ==
    [][ /\ self' = self
        /\ ( /\ pc' = "done"
             /\ ~IsNone(earlier')
             /\ call'.audio_files.form = "list" )
           => /\ BuiltFrom(call.audio_files.items)'
              /\ Get(earlier').self = self'
              /\ Get(earlier').result.kind = "returned" => Cardinality(MusicLoads') = 2 ]_vars

C23_Witness ==
    /\ pc = "done"
    /\ ~IsNone(earlier)
    /\ Get(earlier).result.kind = "raised"
    /\ Get(earlier).resolved # <<>>
    /\ Get(earlier).call.audio_files.form = "None"
    /\ call.audio_files = [form |-> "list", items |-> <<P_c, P_a>>]
    /\ Cardinality(MusicLoads) = 2

\* C25: when two successive calls are both made without segments and without
\* an output directory, and the first has returned, the second resolves the
\* segment list the first resolved.
C25_SecondScanResolvesTheSame ==
    ( /\ ~IsNone(earlier)
      /\ Get(earlier).call.audio_files.form = "None"
      /\ IsNone(Get(earlier).call.output_dir)
      /\ Get(earlier).result.kind = "returned"
      /\ call.audio_files.form = "None"
      /\ IsNone(call.output_dir)
      /\ pc \notin {"idle", "resolve"} )
    => audio_files = Get(earlier).resolved

\* C26: the iteration for a first segment, or for the last of two or more,
\* whose clip is shorter than the fade (fewer than 12000 samples) raises
\* nothing and appends the clip at its own length.
C26_ShortEdgeClipsAssemble ==
    [][ ( /\ pc = "loop"
          /\ i < NSegs
          /\ i = 0 \/ i = NSegs - 1
          /\ Readable(audio_files[i + 1])
          /\ NDim(Prepared(audio_files[i + 1])) = 1
          /\ ALen(Prepared(audio_files[i + 1]))
                 < SamplesOfTenths(self.sample_rate, FadeTenths) )
        => /\ pc' = "loop"
           /\ ALen(podcast_segments'[2 * i + 2]) = ALen(Prepared(audio_files[i + 1])) ]_vars

\* some component of the directory part of a path contains the text
InDirectory(file, text) ==
    \E k \in 1..Len(Parent(file)) : Contains(Parent(file)[k], text)

\* C27: the silence after a non-final segment follows from the base name of
\* its file alone: 1.5 s when the name contains _topic, also when it contains
\* _speaker as well; else 0.7 s when it contains _speaker; else 1.0 s, also
\* when a directory of the path contains _topic or _speaker.
C27_KindIsFromBaseNameTopicFirst ==
    \A k \in DoneSegs :
        k < NSegs - 1 =>
            LET name == Name(audio_files[k + 1])
                gap  == ALen(GapAt(k))
            IN  /\ IsSilence(GapAt(k))
                /\ Contains(name, s_topic) => gap = 36000
                /\ (~Contains(name, s_topic) /\ Contains(name, s_speaker)) => gap = 16800
                /\ (~Contains(name, s_topic) /\ ~Contains(name, s_speaker)) => gap = 24000

C27_Witness ==
    /\ pc = "done"
    /\ \E k \in 0..(NSegs - 2) :
           /\ Contains(Name(audio_files[k + 1]), s_topic)
           /\ Contains(Name(audio_files[k + 1]), s_speaker)
           /\ ALen(GapAt(k)) = 36000
    /\ \E k \in 0..(NSegs - 2) :
           /\ InDirectory(audio_files[k + 1], s_topic)
           /\ ~Contains(Name(audio_files[k + 1]), s_topic)
           /\ ALen(GapAt(k)) = 24000

\* C24: when run has returned a path, it is the path assemble writes to and an
\* audio file is there, whichever stages were skipped.
C24_ReturnedPathHoldsThePodcast ==
    run.at = "returned" =>
        /\ run.outcome.path = Join(self.audio_dir, self.output_file)
        /\ run.outcome.path \in DOMAIN files
        /\ files[run.outcome.path].kind = "audio"

\* the stages of run in their order: flag, and what is logged as each starts
\* and is completed
StageFlags == <<"content", "translation", "audio", "assembly">>
StageStarts == <<"Starting content generation", "Starting translation processing",
                 "Starting audio generation", "Starting audio assembly">>
StageEnds == <<"Content generation completed", "Translation completed",
               "Audio generation completed", "Audio assembly completed">>
Started(s) == {j \in DOMAIN log : log[j] = <<"info", StageStarts[s]>>}
Ended(s) == {j \in DOMAIN log : log[j] = <<"info", StageEnds[s]>>}

\* C28: in a run each stage starts at most once; a stage starts only when its
\* flag is not set, and when run returns every stage whose flag is not set has
\* started; a later stage starts only after every earlier stage that started
\* was completed, so assembly starts after audio generation has returned and
\* no stage starts after one that failed.
C28_StagesOnceInOrderByFlags ==
    run.at # "off" =>
        /\ \A s \in 1..4 :
               /\ Cardinality(Started(s)) <= 1
               /\ Cardinality(Ended(s)) <= Cardinality(Started(s))
               /\ Started(s) # {} => ~run.skip[StageFlags[s]]
               /\ \A j \in Started(s), e \in Ended(s) : j < e
        /\ \A s \in 1..4, t \in 1..4 :
               s < t => \A k \in Started(t), j \in Started(s) :
                            \E e \in Ended(s) : j < e /\ e < k
        /\ (run.at = "returned" \/ (run.at = "exited" /\ run.exit = Some(0))) =>
               \A s \in 1..4 :
                   /\ Started(s) # {} <=> ~run.skip[StageFlags[s]]
                   /\ Ended(s) # {} <=> ~run.skip[StageFlags[s]]
        /\ (run.at = "raised" /\ run.started) =>
               \A s \in 1..4 : Started(s) # {} /\ Ended(s) = {} =>
                   \A t \in (s + 1)..4 : Started(t) = {}

C28_Witness ==
    /\ run.at = "exited"
    /\ run.exit = Some(0)
    /\ run.skip = [content |-> TRUE, translation |-> FALSE, audio |-> FALSE,
                   assembly |-> FALSE]
    /\ Started(1) = {}
    /\ Ended(2) # {} /\ Ended(3) # {} /\ Ended(4) # {}
    /\ Len(Get(run.podcast).topics) >= 1

\* C29: an exception that ends run reaches main as a PodcastGenerationError;
\* main returns 0 exactly when run returned, 1 for every failure inside run,
\* and 2 only for a failure before run that is no PodcastGenerationError.
C29_FailuresAreWrappedAndExitCodes ==
    /\ (run.at = "raised" /\ run.started) =>
           run.outcome.type = "PodcastGenerationError"
    /\ run.at = "exited" =>
           /\ run.exit \in {Some(0), Some(1), Some(2)}
           /\ run.exit = Some(0) <=> (run.started /\ run.outcome.kind = "returned")
           /\ (run.started /\ run.outcome.kind = "raised") => run.exit = Some(1)
           /\ run.exit = Some(2) =>
                  /\ ~run.started
                  /\ ~IsPodcastGenerationError(run.outcome.type)

C29_Witness ==
    /\ run.at = "exited"
    /\ run.exit = Some(1)
    /\ run.started
    /\ Len(run.outcome.text) = 3
    /\ run.outcome.text[2] = "Podcast assembly failed: "
    /\ result.type = "AudioAssemblyError"

\* C30: the podcast read back from the JSON file the content stage saved has
\* the title, description, intro, outro, document text and creation time of
\* the podcast that was saved, and its topics with their exchanges in the
\* same number and order.
C30_SavedPodcastIsRestored ==
    ( /\ run.at \in {"translation", "audio", "assembly"}
      /\ ~run.skip.content )
    => LET p == Get(run.podcast)
           q == FromDict(files[P_json_original].data)
       IN  /\ q.title = p.title
           /\ q.description = p.description
           /\ q.intro = p.intro
           /\ q.outro = p.outro
           /\ q.document_text = p.document_text
           /\ q.created_at = p.created_at
           /\ Len(q.topics) = Len(p.topics)
           /\ q.topics = p.topics

====
